---- MODULE Spec2Model ----
(***************************************************************************)
(* Model of update_cutoff.py: the startup check of the API key, the        *)
(* concurrent fetch of the three league lists of every (platform, queue)   *)
(* pair with its retry loop and status check, the LP cutoff computation,   *)
(* the collection of the futures by the main thread and the final write    *)
(* of lp_cutoffs.json.                                                     *)
(***************************************************************************)
EXTENDS Integers, Sequences, FiniteSets, TLC

VARIABLES
    RIOT_API_KEY,    \* the environment's value of the key: "missing" (None), "empty" ("") or "set"
    mainPc,          \* position of the main thread
    futures,         \* the futures submitted so far, in submission order
    collected,       \* number of futures the main loop has taken the result of
    task,            \* per pair: position and local variables of fetch_cutoff_data
    lp_cutoff_data,  \* the ordered dict the main thread fills
    file,            \* lp_cutoffs.json
    exitCode,        \* -1 while the process runs, then its exit status
    diag,            \* the pairs whose "Failed to fetch data for ..." line was printed
    requested,       \* whether any HTTP request has been issued
    calc             \* the cutoff computation of one pair on given entry lists

vars == <<RIOT_API_KEY, mainPc, futures, collected, task, lp_cutoff_data, file,
          exitCode, diag, requested, calc>>

runVars == <<RIOT_API_KEY, mainPc, futures, collected, task, lp_cutoff_data, file,
             exitCode, diag, requested>>

----------------------------------------------------------------------------
(* Bounds of the model *)

\* number of (platform, queue type) pairs that are run, from the front of the grid
NumPairs == 2
\* number of worker threads of the pool
MaxWorkers == 2
\* longest "entries" list of one league response
MaxEntries == 2
\* leaguePoints range over 0, LPUnit, ..., MaxLPStep * LPUnit
MaxLPStep == 2
\* the configured player counts are divided by CountScale (rounded up), so that
\* a pool of 3 * MaxEntries entries can exceed them
CountScale == 250

LPUnit == 300

----------------------------------------------------------------------------
(* Static configuration *)

PLATFORMS == <<"BR1", "EUN1", "EUW1", "JP1", "KR", "LA1", "LA2", "NA1", "OC1", "RU">>

QUEUE_TYPES == <<"RANKED_SOLO_5x5", "RANKED_FLEX_SR">>

Counts(gm, ch) == [grandmaster |-> gm, challenger |-> ch]

QueueCounts(solo, flex) == ("RANKED_SOLO_5x5" :> solo) @@ ("RANKED_FLEX_SR" :> flex)

PLAYER_CUTOFF ==
    ("BR1"  :> QueueCounts(Counts(500, 200), Counts(500, 200))) @@
    ("EUN1" :> QueueCounts(Counts(500, 200), Counts(100, 50)))  @@
    ("EUW1" :> QueueCounts(Counts(700, 300), Counts(500, 200))) @@
    ("JP1"  :> QueueCounts(Counts(100, 50),  Counts(100, 50)))  @@
    ("KR"   :> QueueCounts(Counts(700, 300), Counts(500, 200))) @@
    ("LA1"  :> QueueCounts(Counts(500, 200), Counts(100, 50)))  @@
    ("LA2"  :> QueueCounts(Counts(500, 200), Counts(100, 50)))  @@
    ("NA1"  :> QueueCounts(Counts(700, 300), Counts(100, 50)))  @@
    ("OC1"  :> QueueCounts(Counts(100, 50),  Counts(100, 50)))  @@
    ("RU"   :> QueueCounts(Counts(100, 50),  Counts(100, 50)))  @@
    ("TR1"  :> QueueCounts(Counts(500, 200), Counts(100, 50)))

DEFAULT_CHALLENGER_CUTOFF == 500

DEFAULT_GRANDMASTER_CUTOFF == 200

\* a configured player count at the scale of the model
Scaled(n) == (n + CountScale - 1) \div CountScale

\* PLAYER_CUTOFF[platform][queue_type]["challenger"]
ChallengerTarget(platform, queue_type) ==
    Scaled(PLAYER_CUTOFF[platform][queue_type].challenger)

\* PLAYER_CUTOFF[platform][queue_type]["grandmaster"]
GrandmasterTarget(platform, queue_type) ==
    Scaled(PLAYER_CUTOFF[platform][queue_type].grandmaster)

----------------------------------------------------------------------------
(* The cutoff computation of fetch_cutoff_data *)

max(a, b) == IF a >= b THEN a ELSE b

\* chellanger_data["entries"] + grandmaster_data["entries"] + master_data["entries"]
merge(c, g, m) == c \o g \o m

RECURSIVE InsertDesc(_, _)
\* x placed behind every element of the descending sequence s that is >= x
InsertDesc(x, s) ==
    IF s = <<>> THEN <<x>>
    ELSE IF Head(s) >= x THEN <<Head(s)>> \o InsertDesc(x, Tail(s))
    ELSE <<x>> \o s

RECURSIVE sorted_Ascending(_)
\* the sort without reverse=True
sorted_Ascending(s) ==
    IF s = <<>> THEN <<>>
    ELSE LET rest == sorted_Ascending(SubSeq(s, 1, Len(s) - 1))
             x == s[Len(s)]
             k == Cardinality({n \in 1..Len(rest) : rest[n] <= x})
         IN  SubSeq(rest, 1, k) \o <<x>> \o SubSeq(rest, k + 1, Len(rest))

RECURSIVE sorted(_)
\* sorted(merge_data, key=leaguePoints, reverse=True): a stable descending sort
sorted(s) ==
    IF s = <<>> THEN <<>>
    ELSE InsertDesc(s[Len(s)], sorted(SubSeq(s, 1, Len(s) - 1)))

\* grandmaster_cutoff as a count: PLAYER_CUTOFF[..]["grandmaster"] + chellanger_cutoff
GrandmasterBound(platform, queue_type) ==
    GrandmasterTarget(platform, queue_type) + ChallengerTarget(platform, queue_type)

\* the test of line 143 with >= for >
PoolExceeds_OrEquals(n, bound) == n >= bound

\* the test of line 143
PoolExceeds(n, bound) == n > bound

\* the cutoff read at Python index count
IndexedCutoff_OffByOne(merge_data, count, floor) == max(merge_data[count + 1], floor)

\* the cutoff without its floor
IndexedCutoff_NoFloor(merge_data, count, floor) == merge_data[count]

\* max(merge_data[count - 1]["leaguePoints"], floor); Python's index count - 1
\* is position count of a TLA+ sequence
IndexedCutoff(merge_data, count, floor) == max(merge_data[count], floor)

\* lines 138-152 on the sorted pool
Cutoffs(platform, queue_type, merge_data) ==
    LET chellanger_cutoff == ChallengerTarget(platform, queue_type)
        grandmaster_cutoff == GrandmasterBound(platform, queue_type)
    IN  IF PoolExceeds(Len(merge_data), grandmaster_cutoff)
        THEN [challenger  |-> IndexedCutoff(merge_data, chellanger_cutoff,
                                            DEFAULT_CHALLENGER_CUTOFF),
              grandmaster |-> IndexedCutoff(merge_data, grandmaster_cutoff,
                                            DEFAULT_GRANDMASTER_CUTOFF)]
        ELSE [challenger  |-> DEFAULT_CHALLENGER_CUTOFF,
              grandmaster |-> DEFAULT_GRANDMASTER_CUTOFF]

\* lines 127-154: the tuple fetch_cutoff_data returns
fetch_cutoff_result(platform, queue_type, c, g, m) ==
    LET r == Cutoffs(platform, queue_type, sorted(merge(c, g, m)))
    IN  [platform |-> platform, queue_type |-> queue_type,
         challenger |-> r.challenger, grandmaster |-> r.grandmaster]

----------------------------------------------------------------------------
(* Inputs *)

LPValues == {k * LPUnit : k \in 0..MaxLPStep}

\* the "entries" lists a league response can carry, as their leaguePoints
EntryLists == UNION {[1..n -> LPValues] : n \in 0..MaxEntries}

NumTasks == NumPairs

TaskIds == 1..NumTasks

\* the pair of the i-th submitted task: platforms outer, queue types inner
PlatformOf(i) == PLATFORMS[((i - 1) \div Len(QUEUE_TYPES)) + 1]

QueueOf(i) == QUEUE_TYPES[((i - 1) % Len(QUEUE_TYPES)) + 1]

\* the platforms of the pairs that are run
RunPlatforms == SubSeq(PLATFORMS, 1, ((NumTasks - 1) \div Len(QUEUE_TYPES)) + 1)

----------------------------------------------------------------------------
(* The computation alone, on every pool of the bounds *)

\* the first pair of the grid for each combination of configured counts
CalcPairs ==
    {k \in 1..(Len(PLATFORMS) * Len(QUEUE_TYPES)) :
        \A j \in 1..(k - 1) :
            PLAYER_CUTOFF[PlatformOf(j)][QueueOf(j)] # PLAYER_CUTOFF[PlatformOf(k)][QueueOf(k)]}

CalcInit ==
    /\ calc \in [pc : {"fetched"}, i : CalcPairs,
                 c : EntryLists, g : EntryLists, m : EntryLists,
                 merge_data : {<<>>}, result : {<<>>}]

\* lines 127-136
CalcMerge ==
    /\ calc.pc = "fetched"
    /\ calc' = [calc EXCEPT !.pc = "sorted",
                            !.merge_data = sorted(merge(calc.c, calc.g, calc.m))]
    /\ UNCHANGED runVars

\* lines 138-154
CalcIndex ==
    /\ calc.pc = "sorted"
    /\ calc' = [calc EXCEPT !.pc = "returned",
                            !.result = Cutoffs(PlatformOf(calc.i), QueueOf(calc.i),
                                               calc.merge_data)]
    /\ UNCHANGED runVars

CalcIdle == [pc |-> "idle", i |-> 1, c |-> <<>>, g |-> <<>>, m |-> <<>>,
             merge_data |-> <<>>, result |-> <<>>]

----------------------------------------------------------------------------
(* Ordered dicts: a sequence of [key, val] in insertion order *)

HasKey(d, k) == \E n \in 1..Len(d) : d[n].key = k

DictGet(d, k) == d[CHOOSE n \in 1..Len(d) : d[n].key = k].val

\* d[k] = v: an existing key keeps its place, a new key goes last
DictSet(d, k, v) ==
    IF HasKey(d, k)
    THEN [n \in 1..Len(d) |-> IF d[n].key = k THEN [key |-> k, val |-> v] ELSE d[n]]
    ELSE Append(d, [key |-> k, val |-> v])

RECURSIVE EmptyDicts(_)
\* {platform: {} for platform in PLATFORMS}
EmptyDicts(ps) ==
    IF ps = <<>> THEN <<>>
    ELSE <<[key |-> Head(ps), val |-> <<>>]>> \o EmptyDicts(Tail(ps))

\* the value stored for one pair, lines 169-172
StoredEntry(challenger_cutoff, grandmaster_cutoff) ==
    [grandmaster |-> grandmaster_cutoff, challenger |-> challenger_cutoff]

\* lines 167-172
Store(d, r) ==
    LET d1 == IF HasKey(d, r.platform) THEN d ELSE DictSet(d, r.platform, <<>>)
    IN  DictSet(d1, r.platform,
                DictSet(DictGet(d1, r.platform), r.queue_type,
                        StoredEntry(r.challenger, r.grandmaster)))

----------------------------------------------------------------------------
(* The run *)

\* range(3)
MaxAttempts == 3

\* status codes of a response: success and a failure
StatusCodes == {200, 500}

\* a response variable that no request has assigned
Unbound == [att |-> 0, status |-> 0]

Bound(r) == r.att # 0

NotStarted == [pc |-> "queued", attempt |-> 0, req |-> "none",
               c |-> Unbound, g |-> Unbound, m |-> Unbound]

\* the frame of a call that has returned or raised
Finished == [pc |-> "finished", attempt |-> 0, req |-> "none",
             c |-> Unbound, g |-> Unbound, m |-> Unbound]

Future(state, exc, result) == [state |-> state, exc |-> exc, result |-> result]

NoResult == <<>>

\* a worker that dies with the exception and leaves the future unfinished
Raised_Lost(exc) == Future("running", "none", NoResult)

\* the executor stores what the call raised (SystemExit included) in its future
Raised(exc) == Future("finished", exc, NoResult)

Running == {i \in 1..Len(futures) : futures[i].state = "running"}

AllFinished == \A i \in 1..Len(futures) : futures[i].state = "finished"

Init ==
    /\ RIOT_API_KEY = "set"
    /\ mainPc = "startup"
    /\ futures = <<>>
    /\ collected = 0
    /\ task = [i \in TaskIds |-> NotStarted]
    /\ lp_cutoff_data = <<>>
    /\ file = [written |-> FALSE, data |-> <<>>]
    /\ exitCode = -1
    /\ diag = {}
    /\ requested = FALSE
    /\ calc = CalcIdle

\* lines 7-10 and 157: only the empty string stops the process
Startup ==
    /\ mainPc = "startup"
    /\ IF RIOT_API_KEY = "empty"
       THEN /\ mainPc' = "exited"
            /\ exitCode' = 1
            /\ UNCHANGED lp_cutoff_data
       ELSE /\ mainPc' = "submit"
            /\ lp_cutoff_data' = EmptyDicts(RunPlatforms)
            /\ UNCHANGED exitCode
    /\ UNCHANGED <<RIOT_API_KEY, futures, collected, task, file, diag, requested, calc>>

\* lines 160-164: one executor.submit
Submit ==
    /\ mainPc = "submit"
    /\ Len(futures) < NumTasks
    /\ futures' = Append(futures, Future("pending", "none", NoResult))
    /\ mainPc' = IF Len(futures) + 1 = NumTasks THEN "collect" ELSE "submit"
    /\ UNCHANGED <<RIOT_API_KEY, collected, task, lp_cutoff_data, file, exitCode,
                   diag, requested, calc>>

\* a worker thread takes the oldest queued call; lines 96-108
StartTask(i) ==
    /\ i \in 1..Len(futures)
    /\ futures[i].state = "pending"
    /\ \A j \in 1..(i - 1) : futures[j].state # "pending"
    /\ Cardinality(Running) < MaxWorkers
    /\ futures' = [futures EXCEPT ![i].state = "running"]
    /\ task' = [task EXCEPT ![i] = [NotStarted EXCEPT !.pc = "fetch", !.attempt = 1,
                                                      !.req = "c"]]
    /\ UNCHANGED <<RIOT_API_KEY, mainPc, collected, lp_cutoff_data, file, exitCode,
                   diag, requested, calc>>

\* lines 109-112: requests.get returns a response
Respond(i, status) ==
    /\ task[i].pc = "fetch"
    /\ LET t == task[i]
           r == [att |-> t.attempt, status |-> status]
       IN  task' = [task EXCEPT ![i] =
                CASE t.req = "c" -> [t EXCEPT !.c = r, !.req = "g"]
                  [] t.req = "g" -> [t EXCEPT !.g = r, !.req = "m"]
                  [] t.req = "m" -> [t EXCEPT !.m = r, !.req = "none", !.pc = "check"]]
    /\ requested' = TRUE
    /\ UNCHANGED <<RIOT_API_KEY, mainPc, futures, collected, lp_cutoff_data, file,
                   exitCode, diag, calc>>

\* a retry that resumes at the request that failed
AfterError_ResumeAtFailed(t) ==
    IF t.attempt < MaxAttempts
    THEN [t EXCEPT !.attempt = t.attempt + 1]
    ELSE [t EXCEPT !.req = "none", !.pc = "check"]

\* where the loop goes after the except clause of lines 113-115
AfterError(t) ==
    IF t.attempt < MaxAttempts
    THEN [t EXCEPT !.attempt = t.attempt + 1, !.req = "c"]
    ELSE [t EXCEPT !.req = "none", !.pc = "check"]

\* lines 113-115 and 107: requests.get raises a RequestException
TransportError(i) ==
    /\ task[i].pc = "fetch"
    /\ task' = [task EXCEPT ![i] = AfterError(task[i])]
    /\ requested' = TRUE
    /\ UNCHANGED <<RIOT_API_KEY, mainPc, futures, collected, lp_cutoff_data, file,
                   exitCode, diag, calc>>

\* the status test with "and" for "or"
StatusCheck_And(t) ==
    IF ~Bound(t.c) \/ ~Bound(t.g) \/ ~Bound(t.m) THEN "UnboundLocalError"
    ELSE IF t.c.status # 200 /\ t.g.status # 200 /\ t.m.status # 200 THEN "SystemExit"
    ELSE "pass"

\* what lines 117-125 do with the three response variables, evaluated left
\* to right: reading an unbound variable raises UnboundLocalError, in the
\* condition or in the f-string of the print
StatusCheck(t) ==
    CASE ~Bound(t.c) -> "UnboundLocalError"
      [] Bound(t.c) /\ t.c.status # 200 ->
            IF Bound(t.g) /\ Bound(t.m) THEN "SystemExit" ELSE "UnboundLocalError"
      [] Bound(t.c) /\ t.c.status = 200 /\ ~Bound(t.g) -> "UnboundLocalError"
      [] Bound(t.c) /\ t.c.status = 200 /\ Bound(t.g) /\ t.g.status # 200 ->
            IF Bound(t.m) THEN "SystemExit" ELSE "UnboundLocalError"
      [] Bound(t.c) /\ t.c.status = 200 /\ Bound(t.g) /\ t.g.status = 200 ->
            IF ~Bound(t.m) THEN "UnboundLocalError"
            ELSE IF t.m.status # 200 THEN "SystemExit" ELSE "pass"

\* lines 117-125
Check(i) ==
    /\ task[i].pc = "check"
    /\ LET t == task[i]
           outcome == StatusCheck(t)
       IN  IF outcome = "pass"
           THEN /\ task' = [task EXCEPT ![i].pc = "parse"]
                /\ UNCHANGED <<futures, diag>>
           ELSE /\ task' = [task EXCEPT ![i] = Finished]
                /\ futures' = [futures EXCEPT ![i] = Raised(outcome)]
                /\ diag' = IF outcome = "SystemExit" THEN diag \cup {i} ELSE diag
    /\ UNCHANGED <<RIOT_API_KEY, mainPc, collected, lp_cutoff_data, file, exitCode,
                   requested, calc>>

\* the bodies the responses of a run carry: any number of entries up to
\* MaxEntries, all with the same leaguePoints
RunEntryLists == {[k \in 1..n |-> v] : n \in 0..MaxEntries, v \in LPValues}

\* what the call of pair i can return, over the bodies of its three responses
Returns ==
    [i \in TaskIds |->
        {fetch_cutoff_result(PlatformOf(i), QueueOf(i), c, g, m) :
            c \in RunEntryLists, g \in RunEntryLists, m \in RunEntryLists}]

\* lines 127-154; the bodies are taken to carry "entries" with "leaguePoints"
Return(i) ==
    /\ task[i].pc = "parse"
    /\ \E r \in Returns[i] :
          futures' = [futures EXCEPT ![i] = Future("finished", "none", r)]
    /\ task' = [task EXCEPT ![i] = Finished]
    /\ UNCHANGED <<RIOT_API_KEY, mainPc, collected, lp_cutoff_data, file, exitCode,
                   diag, requested, calc>>

\* the futures taken in reverse
Awaited_Reversed(n) == NumTasks - n

\* the future the loop of line 165 waits for after n iterations
Awaited(n) == n + 1

\* lines 165-175: future.result() returns or raises what the call raised
Collect ==
    /\ mainPc = "collect"
    /\ LET f == futures[Awaited(collected)]
       IN  /\ f.state = "finished"
           /\ IF f.exc = "none"
              THEN /\ lp_cutoff_data' = Store(lp_cutoff_data, f.result)
                   /\ collected' = collected + 1
                   /\ mainPc' = IF collected + 1 = NumTasks THEN "leaving" ELSE "collect"
              ELSE /\ mainPc' = "unwinding"
                   /\ UNCHANGED <<lp_cutoff_data, collected>>
    /\ UNCHANGED <<RIOT_API_KEY, futures, task, file, exitCode, diag, requested, calc>>

\* the end of the with block of line 159: shutdown(wait=True) joins the
\* workers, which first run every queued call; an exception then ends the
\* process
JoinWorkers ==
    /\ mainPc \in {"leaving", "unwinding"}
    /\ AllFinished
    /\ IF mainPc = "leaving"
       THEN /\ mainPc' = "write"
            /\ UNCHANGED exitCode
       ELSE /\ mainPc' = "exited"
            /\ exitCode' = 1
    /\ UNCHANGED <<RIOT_API_KEY, futures, collected, task, lp_cutoff_data, file, diag,
                   requested, calc>>

\* lines 177-179
WriteFile ==
    /\ mainPc = "write"
    /\ file' = [written |-> TRUE, data |-> lp_cutoff_data]
    /\ mainPc' = "done"
    /\ exitCode' = 0
    /\ UNCHANGED <<RIOT_API_KEY, futures, collected, task, lp_cutoff_data, diag,
                   requested, calc>>

TaskStep(i) ==
    \/ StartTask(i)
    \/ \E status \in StatusCodes : Respond(i, status)
    \/ TransportError(i)
    \/ Check(i)
    \/ Return(i)

MainStep == Startup \/ Submit \/ Collect \/ JoinWorkers \/ WriteFile

Next ==
    \/ Startup
    \/ Submit
    \/ \E i \in TaskIds : StartTask(i)
    \/ \E i \in TaskIds, status \in StatusCodes : Respond(i, status)
    \/ \E i \in TaskIds : TransportError(i)
    \/ \E i \in TaskIds : Check(i)
    \/ \E i \in TaskIds : Return(i)
    \/ Collect
    \/ JoinWorkers
    \/ WriteFile

Spec == Init /\ [][Next]_vars

\* the run in any environment: RIOT_API_KEY absent, empty or set
EnvInit ==
    /\ RIOT_API_KEY \in {"missing", "empty", "set"}
    /\ mainPc = "startup"
    /\ futures = <<>>
    /\ collected = 0
    /\ task = [i \in TaskIds |-> NotStarted]
    /\ lp_cutoff_data = <<>>
    /\ file = [written |-> FALSE, data |-> <<>>]
    /\ exitCode = -1
    /\ diag = {}
    /\ requested = FALSE
    /\ calc = CalcIdle

SpecEnv == EnvInit /\ [][Next]_vars

\* every thread that can take a step eventually takes one
FairSpec ==
    /\ SpecEnv
    /\ WF_vars(MainStep)
    /\ \A i \in TaskIds : WF_vars(TaskStep(i))

CalcStart ==
    /\ CalcInit
    /\ RIOT_API_KEY = "set"
    /\ mainPc = "startup"
    /\ futures = <<>>
    /\ collected = 0
    /\ task = [i \in TaskIds |-> NotStarted]
    /\ lp_cutoff_data = <<>>
    /\ file = [written |-> FALSE, data |-> <<>>]
    /\ exitCode = -1
    /\ diag = {}
    /\ requested = FALSE

CalcNext == CalcMerge \/ CalcIndex

SpecCalc == CalcStart /\ [][CalcNext]_vars

----------------------------------------------------------------------------
(* Properties *)

CalcPool == calc.c \o calc.g \o calc.m

CalcChallengerTarget == ChallengerTarget(PlatformOf(calc.i), QueueOf(calc.i))

CalcBound ==
    ChallengerTarget(PlatformOf(calc.i), QueueOf(calc.i))
        + GrandmasterTarget(PlatformOf(calc.i), QueueOf(calc.i))

\* the score at 1-indexed rank k of the pool in descending order: fewer than
\* k entries score more, at least k entries score as much
ScoreAtRank(pool, k) ==
    CHOOSE v \in {pool[n] : n \in 1..Len(pool)} :
        /\ Cardinality({n \in 1..Len(pool) : pool[n] > v}) < k
        /\ Cardinality({n \in 1..Len(pool) : pool[n] >= v}) >= k

Floor(score, floor) == IF score < floor THEN floor ELSE score

\* C1: when the merged pool has more entries than challengerTarget +
\* grandmasterTarget, the challenger cutoff is the score at rank challengerTarget
\* of the pool in descending order, raised to 500, and the grandmaster cutoff
\* is the score at rank challengerTarget + grandmasterTarget, raised to 200.
C1_IndexedCutoffs ==
    (calc.pc = "returned" /\ Len(CalcPool) > CalcBound) =>
        /\ calc.result.challenger = Floor(ScoreAtRank(CalcPool, CalcChallengerTarget), 500)
        /\ calc.result.grandmaster = Floor(ScoreAtRank(CalcPool, CalcBound), 200)

C1_Witness ==
    /\ calc.pc = "returned"
    /\ Len(CalcPool) > CalcBound
    /\ CalcPool # calc.merge_data
    /\ calc.result.challenger > 500
    /\ calc.result.grandmaster > 200
    /\ calc.result.grandmaster < calc.result.challenger

\* C2: when the merged pool has at most challengerTarget + grandmasterTarget
\* entries, exactly that many included, the cutoffs are 500 and 200 whatever
\* the scores.
C2_FloorFallback ==
    (calc.pc = "returned" /\ Len(CalcPool) <= CalcBound) =>
        /\ calc.result.challenger = 500
        /\ calc.result.grandmaster = 200

C2_Witness ==
    /\ calc.pc = "returned"
    /\ Len(CalcPool) = CalcBound
    /\ \A n \in 1..Len(CalcPool) : CalcPool[n] > 500
    /\ calc.result = [challenger |-> 500, grandmaster |-> 200]

\* C3: the computed challenger cutoff is at least 500 and the computed
\* grandmaster cutoff at least 200, for every pair and every pool.
C3_CutoffsAtLeastFloors ==
    calc.pc = "returned" =>
        /\ calc.result.challenger >= DEFAULT_CHALLENGER_CUTOFF
        /\ calc.result.grandmaster >= DEFAULT_GRANDMASTER_CUTOFF

C3_Witness ==
    /\ calc.pc = "returned"
    /\ Len(CalcPool) > CalcBound
    /\ calc.merge_data[CalcChallengerTarget] < DEFAULT_CHALLENGER_CUTOFF
    /\ calc.merge_data[CalcBound] < DEFAULT_GRANDMASTER_CUTOFF
    /\ calc.result = [challenger |-> 500, grandmaster |-> 200]

\* C4: the grandmaster cutoff never exceeds the challenger cutoff, in the
\* indexed branch (ties included) and in the fallback branch.
C4_GrandmasterAtMostChallenger ==
    calc.pc = "returned" => calc.result.grandmaster <= calc.result.challenger

C4_Witness ==
    /\ calc.pc = "returned"
    /\ Len(CalcPool) > CalcBound
    /\ CalcPool[1] < CalcPool[Len(CalcPool)]
    /\ calc.result.grandmaster > DEFAULT_CHALLENGER_CUTOFF
    /\ calc.result.grandmaster = calc.result.challenger

AllThreeBound(t) == Bound(t.c) /\ Bound(t.g) /\ Bound(t.m)

SomeNon200(t) == t.c.status # 200 \/ t.g.status # 200 \/ t.m.status # 200

\* the call of pair i ended by the exit(1) of line 125
FetchFailed(i) == i \in 1..Len(futures) /\ futures[i].exc = "SystemExit"

\* C5: if one of the three responses a fetch ends up with has a status other
\* than 200, the status check prints the line naming the pair and exits; from
\* then on the file is never written and the process never exits with 0,
\* whatever the other tasks do.
C5_Non200Aborts ==
    /\ [][\A i \in TaskIds :
            (task[i].pc = "check" /\ AllThreeBound(task[i]) /\ SomeNon200(task[i])
                /\ task'[i] # task[i])
            => (i \in diag' /\ futures'[i] = Future("finished", "SystemExit", NoResult))]_vars
    /\ [](\A i \in TaskIds :
            FetchFailed(i) =>
                /\ i \in diag
                /\ ~file.written
                /\ mainPc \notin {"leaving", "write", "done"}
                /\ exitCode \in {-1, 1})

C5_Witness ==
    /\ mainPc = "exited"
    /\ exitCode = 1
    /\ ~file.written
    /\ Len(futures) = NumTasks
    /\ FetchFailed(NumTasks)
    /\ diag = {NumTasks}
    /\ \A i \in 1..(NumTasks - 1) : futures[i].state = "finished" /\ futures[i].exc = "none"

\* the retry loop of pair i has run out: the third attempt raised too
Exhausted(i) ==
    /\ task[i].pc = "check"
    /\ task[i].attempt = MaxAttempts
    /\ ~Bound(task[i].m)

\* C6: when all 3 attempts of a pair end in a transport error, the failure is
\* handled as a fatal fetch failure: the line naming the pair is printed and
\* the call ends by the exit(1) of the status check.
C6_ExhaustedRetriesEscalate ==
    [][\A i \in TaskIds :
          (Exhausted(i) /\ task'[i].pc = "finished")
          => (i \in diag' /\ futures'[i].exc = "SystemExit")]_vars

\* C7: with RIOT_API_KEY missing from the environment the process stops at
\* startup: no request is issued and no file is written.
C7_MissingKeyStopsAtStartup ==
    RIOT_API_KEY = "missing" => (~requested /\ ~file.written)

\* the record lp_cutoffs.json must hold: platforms in PLATFORMS order, queue
\* types in QUEUE_TYPES order, each pair with the cutoffs its own call returned
QueuesRun(n) ==
    {k \in 1..Len(QUEUE_TYPES) : (n - 1) * Len(QUEUE_TYPES) + k <= NumTasks}

ExpectedRecord ==
    [n \in 1..Len(RunPlatforms) |->
        [key |-> RunPlatforms[n],
         val |-> [k \in QueuesRun(n) |->
                    LET r == futures[(n - 1) * Len(QUEUE_TYPES) + k].result
                    IN  [key |-> QUEUE_TYPES[k],
                         val |-> [grandmaster |-> r.grandmaster,
                                  challenger |-> r.challenger]]]]]

\* C8: the file is written only after every call of the grid has returned,
\* and then holds one entry per pair, with the cutoffs of that pair's own
\* call, in the order of the configuration and not of completion.
C8_OutputAfterAllAndDeterministic ==
    file.written =>
        /\ Len(futures) = NumTasks
        /\ \A i \in TaskIds :
              /\ futures[i].state = "finished"
              /\ futures[i].exc = "none"
              /\ futures[i].result.platform = PlatformOf(i)
              /\ futures[i].result.queue_type = QueueOf(i)
        /\ file.data = ExpectedRecord

C8_Witness ==
    /\ file.written
    /\ mainPc = "done"
    /\ \A i \in TaskIds : HasKey(DictGet(file.data, PlatformOf(i)), QueueOf(i))
    /\ futures[1].result.challenger # futures[NumTasks].result.challenger
    /\ futures[1].result.grandmaster # futures[NumTasks].result.grandmaster

\* C9: a fetch makes at most 3 attempts; within an attempt the challenger,
\* grandmaster and master requests go out in this order; a new attempt starts
\* only from a transport error and starts again at the challenger request;
\* when all three responses are there at the status check and at the cutoff
\* computation, they are of one attempt.
C9_RetryWholeTriple ==
    /\ [](\A i \in TaskIds :
            LET t == task[i]
            IN  /\ t.attempt <= MaxAttempts
                /\ (t.pc = "fetch" /\ t.req = "g") => t.c.att = t.attempt
                /\ (t.pc = "fetch" /\ t.req = "m") =>
                        (t.c.att = t.attempt /\ t.g.att = t.attempt)
                /\ (t.pc \in {"check", "parse"} /\ AllThreeBound(t)) =>
                        (t.c.att = t.attempt /\ t.g.att = t.attempt /\ t.m.att = t.attempt)
                /\ t.pc = "parse" => AllThreeBound(t))
    /\ [][\A i \in TaskIds :
            (task[i].pc = "fetch" /\ task'[i].pc = "fetch"
                /\ task'[i].attempt # task[i].attempt)
            => /\ task'[i].attempt = task[i].attempt + 1
               /\ task'[i].req = "c"
               /\ task'[i].c = task[i].c
               /\ task'[i].g = task[i].g
               /\ task'[i].m = task[i].m]_vars

C9_Witness ==
    \E i \in TaskIds :
        /\ task[i].pc = "parse"
        /\ task[i].attempt = MaxAttempts
        /\ AllThreeBound(task[i])

WrittenWithAllPairs ==
    /\ mainPc = "done"
    /\ exitCode = 0
    /\ file.written
    /\ \A i \in TaskIds :
          /\ HasKey(file.data, PlatformOf(i))
          /\ HasKey(DictGet(file.data, PlatformOf(i)), QueueOf(i))

AbortedWithoutOutput ==
    /\ mainPc = "exited"
    /\ exitCode = 1
    /\ ~file.written

\* C10: every run ends, either with the file written with all pairs or
\* aborted with a non-zero exit and no file, whatever the requests' outcomes
\* and the threads' schedule; a call that fails never leaves the main
\* thread waiting for its future.
C10_RunTerminates ==
    /\ <>[](WrittenWithAllPairs \/ AbortedWithoutOutput)
    /\ [](~(WrittenWithAllPairs /\ AbortedWithoutOutput))

C10_Witness ==
    /\ AbortedWithoutOutput
    /\ \E i \in 1..Len(futures) : futures[i].exc = "UnboundLocalError"
    /\ \E i \in 1..Len(futures) : futures[i].exc = "SystemExit"

====
